---- MODULE Spec2Model ----
(***************************************************************************)
(* The ensemble reconciliation engine of the email parser:                 *)
(* EnsembleParser in src/src/email_parser/ensemble_parser.py, with the     *)
(* data shapes of base.py and fuzzy_match_ebitda of utils.py.              *)
(*                                                                         *)
(* Python values.  An Optional[T] is a sequence of length at most one:     *)
(* None is <<>> and a present value x is <<x>>.  A float is an exact       *)
(* rational <<n, d>> with d > 0 in lowest terms, counted in units of one   *)
(* third of the tolerance 0.001 that _combine_results passes to            *)
(* _fuzzy_consensus, so the tolerance is the integer Tolerance.  A str is a *)
(* sequence of characters (a company name is used as a regular             *)
(* expression); names of extractors, source tags and strategies are TLA+   *)
(* strings.  Floating-point rounding is not modelled: arithmetic is exact. *)
(***************************************************************************)
EXTENDS Integers, Sequences, FiniteSets, TLC

VARIABLES
    pc,               \* where the engine is: "new", "idle", "parallel", "sequential", "combine", "returned", "raised", "init_raised"; "call", "done" for a strategy called on its own
    config,           \* the constructor's arguments: toggles, extractors that cannot be built, csv
    parsers,          \* self.parsers: the names of the configured extractors, in order
    historical_data,  \* self.historical_data: None or the loaded table
    parallel,         \* the parallel argument of parse_data
    idx,              \* sequential mode: position of the for loop in self.parsers
    calls,            \* per extractor: what each call of its parse_data did, in call order
    futures,          \* parallel mode, per extractor: "none", "pending", "finished", "yielded"
    future_result,    \* parallel mode, per extractor: what _run_single_parser returned
    results,          \* the results list of parse_data / the argument of _combine_results
    strategy,         \* the strategy argument of _combine_results
    combined,         \* None, or the record _combine_results returned
    frame             \* a strategy function called on its own: None, or its name, arguments, locals and return value

vars == <<pc, config, parsers, historical_data, parallel, idx, calls, futures,
          future_result, results, strategy, combined, frame>>

----------------------------------------------------------------------------
(* Bounds of the model *)

\* EBITDA values of the reconciliation inputs range over {-2} and 0..MaxEbitda
MaxEbitda == 2

\* longest outcome list handed to _combine_results when it is checked alone
MaxOutcomes == 3

\* longest list of EBITDA values handed to _fuzzy_consensus and _majority_vote
\* when they are checked alone
MaxValues == 4

----------------------------------------------------------------------------
(* Program constants *)

\* tolerance=0.001 of the cascade's call of _fuzzy_consensus, in units
Tolerance == 3

----------------------------------------------------------------------------
(* Python values *)

None == <<>>

Some(x) == <<x>>

Abs(x) == IF x < 0 THEN -x ELSE x

RECURSIVE GCD(_, _)
GCD(a, b) == IF b = 0 THEN a ELSE GCD(b, a % b)

\* the float n/d, d > 0, in lowest terms
Float(n, d) == LET g == GCD(Abs(n), d) IN IF n = 0 THEN <<0, 1>> ELSE <<n \div g, d \div g>>

FloatAdd(a, b) == Float(a[1] * b[2] + b[1] * a[2], a[2] * b[2])

\* a / k for an integer k > 0
FloatDiv(a, k) == Float(a[1], a[2] * k)

\* |a - b| <= t and |a - b| < |c - b| on floats
AbsDiffLeq(a, b, t) == Abs(a[1] * b[2] - b[1] * a[2]) <= t * a[2] * b[2]

Closer(a, c, b) ==
    Abs(a[1] * b[2] - b[1] * a[2]) * c[2] < Abs(c[1] * b[2] - b[1] * c[2]) * a[2]

\* bool(x) of an Optional[float] and of an Optional[str]
TruthyFloat(x) == x # None /\ x[1][1] # 0

TruthyText(x) == x # None /\ x[1] # <<>>

\* [v for v in values if v is not None]
valid_values(values) == SelectSeq(values, LAMBDA v : v # None)

\* next(...) keeping the last truthy value instead of the first
FirstTruthyText_last(seq) ==
    IF \E i \in DOMAIN seq : TruthyText(seq[i])
    THEN seq[CHOOSE i \in DOMAIN seq :
                /\ TruthyText(seq[i])
                /\ \A j \in (i + 1)..Len(seq) : ~TruthyText(seq[j])]
    ELSE None

\* next((f(o) for o in seq if f(o)), None) for a text field
FirstTruthyText(seq) ==
    IF \E i \in DOMAIN seq : TruthyText(seq[i])
    THEN seq[CHOOSE i \in DOMAIN seq :
                /\ TruthyText(seq[i])
                /\ \A j \in 1..(i - 1) : ~TruthyText(seq[j])]
    ELSE None

\* bool(x) of an Optional[datetime]: every datetime is truthy
TruthyDate(x) == x # None

\* next((o.date for o in opportunities if o.date), None)
FirstTruthyDate(seq) ==
    IF \E i \in DOMAIN seq : TruthyDate(seq[i])
    THEN seq[CHOOSE i \in DOMAIN seq :
                /\ TruthyDate(seq[i])
                /\ \A j \in 1..(i - 1) : ~TruthyDate(seq[j])]
    ELSE None

----------------------------------------------------------------------------
(* utils.py *)

\* fuzzy_match_ebitda with < for <=: the boundary is left out
fuzzy_match_ebitda_strict(predicted, actual, tolerance) ==
    IF predicted = None \/ actual = None
    THEN FALSE
    ELSE Abs(predicted[1][1] * actual[1][2] - actual[1][1] * predicted[1][2])
            < tolerance * predicted[1][2] * actual[1][2]

fuzzy_match_ebitda(predicted, actual, tolerance) ==
    IF predicted = None \/ actual = None
    THEN FALSE
    ELSE AbsDiffLeq(predicted[1], actual[1], tolerance)

----------------------------------------------------------------------------
(* The weight tables of _confidence_weighted and _select_best_field, in    *)
(* tenths.                                                                 *)

parser_weights(name) ==
    CASE name = "LLM" -> 10
      [] name = "Vision" -> 9
      [] name = "NER" -> 7
      [] name = "OCR" -> 5
      [] OTHER -> 5

source_weights(extraction_source) ==
    CASE extraction_source = "attachment" -> 12
      [] extraction_source = "body" -> 10
      [] extraction_source = "both" -> 11
      [] OTHER -> 10

\* score *= 1.1 when raw_ebitda_text is truthy
\* a score of zero for an outcome without raw text
raw_text_bonus_zero(opportunity) == IF TruthyText(opportunity.raw_ebitda_text) THEN 11 ELSE 0

raw_text_bonus(opportunity) == IF TruthyText(opportunity.raw_ebitda_text) THEN 11 ELSE 10

----------------------------------------------------------------------------
(* EnsembleParser: the tie-breaking strategies *)

Front(seq) == SubSeq(seq, 1, Len(seq) - 1)

Last(seq) == seq[Len(seq)]

\* Counter(valid_values)[v]
CountOf(v, seq) == Cardinality({i \in DOMAIN seq : seq[i] = v})

\* counter.most_common(1)[0][0]: the first key, in insertion order, with the
\* highest count
most_common(valid) ==
    valid[CHOOSE i \in DOMAIN valid :
            /\ \A j \in DOMAIN valid : CountOf(valid[j], valid) <= CountOf(valid[i], valid)
            /\ \A j \in 1..(i - 1) : CountOf(valid[j], valid) < CountOf(valid[i], valid)]

\* majority_vote with 0.0, not None, as the answer when no value is valid
majority_vote_zero(values) ==
    LET valid == valid_values(values)
    IN  IF valid = <<>>
        THEN Some(Float(0, 1))
        ELSE IF CountOf(most_common(valid), valid) * 2 > Len(valid)
             THEN most_common(valid)
             ELSE None

\* majority_vote with >= for >: half of the values is enough
majority_vote_half(values) ==
    LET valid == valid_values(values)
    IN  IF valid = <<>>
        THEN None
        ELSE IF CountOf(most_common(valid), valid) * 2 >= Len(valid)
             THEN most_common(valid)
             ELSE None

majority_vote(values) ==
    LET valid == valid_values(values)
    IN  IF valid = <<>>
        THEN None
        ELSE IF CountOf(most_common(valid), valid) * 2 > Len(valid)
             THEN most_common(valid)
             ELSE None

\* add_to_clusters comparing value with the last member of each cluster, so
\* that the representative moves as the cluster grows
add_to_clusters_last(clusters, value, tolerance) ==
    IF \E c \in DOMAIN clusters : fuzzy_match_ebitda(value, Last(clusters[c]), tolerance)
    THEN LET c == CHOOSE c \in DOMAIN clusters :
                    /\ fuzzy_match_ebitda(value, Last(clusters[c]), tolerance)
                    /\ \A b \in 1..(c - 1) :
                          ~fuzzy_match_ebitda(value, Last(clusters[b]), tolerance)
         IN  [clusters EXCEPT ![c] = Append(@, value)]
    ELSE Append(clusters, <<value>>)

\* the clustering loop comparing value with every member of a cluster
add_to_clusters_any(clusters, value, tolerance) ==
    IF \E c \in DOMAIN clusters : \E k \in DOMAIN clusters[c] :
          fuzzy_match_ebitda(value, clusters[c][k], tolerance)
    THEN LET c == CHOOSE c \in DOMAIN clusters :
                    /\ \E k \in DOMAIN clusters[c] :
                          fuzzy_match_ebitda(value, clusters[c][k], tolerance)
                    /\ \A b \in 1..(c - 1) : \A k \in DOMAIN clusters[b] :
                          ~fuzzy_match_ebitda(value, clusters[b][k], tolerance)
         IN  [clusters EXCEPT ![c] = Append(@, value)]
    ELSE Append(clusters, <<value>>)

\* one pass of the clustering loop: value joins the first cluster whose first
\* member matches it, or starts a new cluster
add_to_clusters(clusters, value, tolerance) ==
    IF \E c \in DOMAIN clusters : fuzzy_match_ebitda(value, clusters[c][1], tolerance)
    THEN LET c == CHOOSE c \in DOMAIN clusters :
                    /\ fuzzy_match_ebitda(value, clusters[c][1], tolerance)
                    /\ \A b \in 1..(c - 1) :
                          ~fuzzy_match_ebitda(value, clusters[b][1], tolerance)
         IN  [clusters EXCEPT ![c] = Append(@, value)]
    ELSE Append(clusters, <<value>>)

RECURSIVE fuzzy_clusters(_, _)
fuzzy_clusters(valid, tolerance) ==
    IF valid = <<>>
    THEN <<>>
    ELSE add_to_clusters(fuzzy_clusters(Front(valid), tolerance), Last(valid), tolerance)

\* max(clusters, key=len): the first cluster of the greatest length
largest_cluster(clusters) ==
    clusters[CHOOSE c \in DOMAIN clusters :
                /\ \A b \in DOMAIN clusters : Len(clusters[b]) <= Len(clusters[c])
                /\ \A b \in 1..(c - 1) : Len(clusters[b]) < Len(clusters[c])]

RECURSIVE sum(_)
sum(cluster) ==
    IF cluster = <<>> THEN Float(0, 1) ELSE FloatAdd(sum(Front(cluster)), Last(cluster)[1])

\* cluster_average dividing by one more than the number of members
cluster_average_short(cluster) == Some(FloatDiv(sum(cluster), Len(cluster) + 1))

\* sum(largest_cluster) / len(largest_cluster)
cluster_average(cluster) == Some(FloatDiv(sum(cluster), Len(cluster)))

\* consensus_of with >= for >: half of the values is enough
consensus_of_half(valid, clusters) ==
    IF valid = <<>>
    THEN None
    ELSE IF Len(largest_cluster(clusters)) * 2 >= Len(valid)
         THEN cluster_average(largest_cluster(clusters))
         ELSE None

\* what _fuzzy_consensus returns once valid_values is clustered
consensus_of(valid, clusters) ==
    IF valid = <<>>
    THEN None
    ELSE IF Len(largest_cluster(clusters)) * 2 > Len(valid)
         THEN cluster_average(largest_cluster(clusters))
         ELSE None

\* fuzzy_consensus answering only when every valid value is in one cluster
fuzzy_consensus_unanimous(values, tolerance) ==
    IF Len(fuzzy_clusters(valid_values(values), tolerance)) = 1
    THEN consensus_of(valid_values(values), fuzzy_clusters(valid_values(values), tolerance))
    ELSE None

fuzzy_consensus(values, tolerance) ==
    consensus_of(valid_values(values), fuzzy_clusters(valid_values(values), tolerance))

\* the first non-None EBITDA among the results tagged with source, else None
first_from_source(rs, source) ==
    LET hit(i) == /\ rs[i].result.extraction_source = source
                  /\ rs[i].result.opportunity.ebitda_millions # None
    IN  IF \E i \in DOMAIN rs : hit(i)
        THEN rs[CHOOSE i \in DOMAIN rs :
                        hit(i) /\ \A j \in 1..(i - 1) : ~hit(j)].result.opportunity.ebitda_millions
        ELSE None

\* source_prioritized with the two loops in the other order
source_prioritized_body_first(rs) ==
    IF first_from_source(rs, "body") # None
    THEN first_from_source(rs, "body")
    ELSE first_from_source(rs, "attachment")

source_prioritized(rs) ==
    IF first_from_source(rs, "attachment") # None
    THEN first_from_source(rs, "attachment")
    ELSE first_from_source(rs, "body")

\* weigh_result with >= for >: on equal scores the later result wins
weigh_result_last(best, entry) ==
    LET ebitda == entry.result.opportunity.ebitda_millions
        score == parser_weights(entry.name)
                    * source_weights(entry.result.extraction_source)
                    * raw_text_bonus(entry.result.opportunity)
    IN  IF ebitda = None
        THEN best
        ELSE IF score >= best.best_score
             THEN [best_value |-> ebitda, best_score |-> score, best_source |-> entry.name]
             ELSE best

\* the loop body of _confidence_weighted for one result
\* the loop body of _confidence_weighted taking the value of the first EBITDA
\* option of an outcome that has options
weigh_result_options(best, entry) ==
    LET options == entry.result.opportunity.ebitda_options
        ebitda == IF options # <<>>
                  THEN options[1].value
                  ELSE entry.result.opportunity.ebitda_millions
        score == parser_weights(entry.name)
                    * source_weights(entry.result.extraction_source)
                    * raw_text_bonus(entry.result.opportunity)
    IN  IF ebitda = None
        THEN best
        ELSE IF score > best.best_score
             THEN [best_value |-> ebitda, best_score |-> score, best_source |-> entry.name]
             ELSE best

weigh_result(best, entry) ==
    LET ebitda == entry.result.opportunity.ebitda_millions
        score == parser_weights(entry.name)
                    * source_weights(entry.result.extraction_source)
                    * raw_text_bonus(entry.result.opportunity)
    IN  IF ebitda = None
        THEN best
        ELSE IF score > best.best_score
             THEN [best_value |-> ebitda, best_score |-> score, best_source |-> entry.name]
             ELSE best

RECURSIVE weigh_results(_)
weigh_results(rs) ==
    IF rs = <<>>
    THEN [best_value |-> None, best_score |-> 0, best_source |-> ""]
    ELSE weigh_result(weigh_results(Front(rs)), Last(rs))

\* (best_value, best_source); best_source is f"{name} (score: {score:.2f})",
\* kept as the name and the score in hundredths
confidence_weighted(rs) ==
    LET best == weigh_results(rs)
    IN  [value |-> best.best_value,
         reason |-> [parser |-> best.best_source, score |-> (best.best_score + 5) \div 10]]

\* the loop body of _select_best_field for one option of one result
score_option(best, entry, option) ==
    LET method_confidence == parser_weights(entry.name)
                                * source_weights(entry.result.extraction_source)
        combined_score == method_confidence * option.confidence
    IN  IF combined_score > best.best_combined_score
        THEN [best_value |-> option.value, best_combined_score |-> combined_score]
        ELSE best

RECURSIVE score_options(_, _, _)
score_options(best, entry, options) ==
    IF options = <<>>
    THEN best
    ELSE score_option(score_options(best, entry, Front(options)), entry, Last(options))

RECURSIVE score_results(_, _)
score_results(rs, options_field) ==
    IF rs = <<>>
    THEN [best_value |-> None, best_combined_score |-> 0]
    ELSE score_options(score_results(Front(rs), options_field), Last(rs),
                       Last(rs).result.opportunity[options_field])

\* the first truthy fallback_field among the results (of LLM and Vision only
\* when preferred_only), else None
first_fallback(rs, fallback_field, preferred_only) ==
    LET hit(i) == /\ TruthyText(rs[i].result.opportunity[fallback_field])
                  /\ preferred_only => rs[i].name \in {"LLM", "Vision"}
    IN  IF \E i \in DOMAIN rs : hit(i)
        THEN rs[CHOOSE i \in DOMAIN rs :
                    hit(i) /\ \A j \in 1..(i - 1) : ~hit(j)].result.opportunity[fallback_field]
        ELSE None

\* select_best_field trying the scalar values of LLM and Vision before the options
select_best_field_scalar_first(rs, options_field, fallback_field) ==
    LET best_value == score_results(rs, options_field).best_value
        preferred == first_fallback(rs, fallback_field, TRUE)
    IN  IF preferred # None
        THEN preferred
        ELSE IF best_value # None
             THEN best_value
             ELSE first_fallback(rs, fallback_field, FALSE)

select_best_field(rs, options_field, fallback_field) ==
    LET best_value == score_results(rs, options_field).best_value
        preferred == first_fallback(rs, fallback_field, TRUE)
    IN  IF best_value # None
        THEN best_value
        ELSE IF preferred # None
             THEN preferred
             ELSE first_fallback(rs, fallback_field, FALSE)

----------------------------------------------------------------------------
(* Historical validation.  The table is a sequence of rows with the        *)
(* columns "Company / Project Name" (company: None for a missing cell) and *)
(* "LTM EBITDA ($M)" (ltm_ebitda).  A cell of the latter has a kind:       *)
(* "float" (a number, val), "nan" (a missing number), "n.a." (that text),  *)
(* "money" (a text such as "$6.2" that float() parses to val once "$" and  *)
(* "," are removed) or "text" (a text float() rejects).                    *)

Lower(c) == CASE c = "A" -> "a" [] c = "B" -> "b" [] OTHER -> c

\* re.compile(pat): the characters of the model are letters and "(", and an
\* unclosed "(" is an error
regex_compiles(pat) == \A i \in DOMAIN pat : pat[i] # "("

\* re.search(pat, text, re.IGNORECASE) for a pattern of letters
regex_search(pat, text) ==
    \E k \in 0..(Len(text) - Len(pat)) :
        \A i \in DOMAIN pat : Lower(text[k + i]) = Lower(pat[i])

\* min(valid_values, key=lambda x: abs(x - historical_ebitda)): the first of
\* the closest values
closest_to(valid, historical_ebitda) ==
    valid[CHOOSE i \in DOMAIN valid :
            /\ \A j \in DOMAIN valid : ~Closer(valid[j][1], valid[i][1], historical_ebitda)
            /\ \A j \in 1..(i - 1) : Closer(valid[i][1], valid[j][1], historical_ebitda)]

\* validate_against_historical without the try/except around float(): a text
\* that float() rejects raises out of the function
validate_against_historical_uncaught(company_name, ebitda_values) ==
    LET nothing == [raised |-> FALSE, value |-> None]
        table == historical_data[1]
        matches == SelectSeq(table, LAMBDA row :
                        row.company # None /\ regex_search(company_name[1], row.company[1]))
        cell == matches[1].ltm_ebitda
        valid == valid_values(ebitda_values)
    IN  IF historical_data = None \/ ~TruthyText(company_name)
        THEN nothing
        ELSE IF ~regex_compiles(company_name[1])
        THEN [raised |-> TRUE, value |-> None]
        ELSE IF matches = <<>>
        THEN nothing
        ELSE IF cell.kind = "text"
        THEN [raised |-> TRUE, value |-> None]
        ELSE IF cell.kind = "n.a."
        THEN nothing
        ELSE IF valid = <<>>
        THEN nothing
        ELSE IF cell.kind = "nan"
        THEN [raised |-> FALSE, value |-> valid[1]]
        ELSE [raised |-> FALSE, value |-> closest_to(valid, cell.val)]

\* [raised, value]: raised when str.contains cannot compile company_name
validate_against_historical(company_name, ebitda_values) ==
    LET nothing == [raised |-> FALSE, value |-> None]
        table == historical_data[1]
        matches == SelectSeq(table, LAMBDA row :
                        row.company # None /\ regex_search(company_name[1], row.company[1]))
        cell == matches[1].ltm_ebitda
        valid == valid_values(ebitda_values)
    IN  IF historical_data = None \/ ~TruthyText(company_name)
        THEN nothing
        ELSE IF ~regex_compiles(company_name[1])
        THEN [raised |-> TRUE, value |-> None]
        ELSE IF matches = <<>>
        THEN nothing
        ELSE IF cell.kind \in {"n.a.", "text"}
        THEN nothing
        ELSE IF valid = <<>>
        THEN nothing
        ELSE IF cell.kind = "nan"
        THEN [raised |-> FALSE, value |-> valid[1]]
        ELSE [raised |-> FALSE, value |-> closest_to(valid, cell.val)]

----------------------------------------------------------------------------
(* _combine_results *)

\* InvestmentOpportunity(): every field at its default
InvestmentOpportunity ==
    [source_domain |-> None, recipient |-> None, hq_location |-> None,
     ebitda_millions |-> None, date |-> None, company_name |-> None,
     sector |-> None, raw_ebitda_text |-> None,
     ebitda_options |-> <<>>, location_options |-> <<>>,
     company_options |-> <<>>, sector_options |-> <<>>]

\* tie_break_method: the method text and, for confidence selection, the
\* reason (extractor name and score) that follows it
tie_break(method) == [method |-> method, parser |-> "", score |-> 0]

\* f"[{tie_break_method}]"
bracketed(tie_break_method) == <<"[", tie_break_method, "]">>

\* for ebitda in ebitda_values: if ebitda is not None: ... break
first_available(ebitda_values) ==
    IF valid_values(ebitda_values) = <<>> THEN None ELSE valid_values(ebitda_values)[1]

\* cascade_step naming the step whether or not its value is truthy
cascade_step_named(state, selected, value, method) ==
    IF state.final_ebitda = None /\ selected
    THEN [final_ebitda |-> value, tie_break_method |-> method]
    ELSE state

\* final_ebitda and tie_break_method after one more step of the cascade:
\* the step runs when no value is held and the strategy selects it, its
\* value is kept whatever it is, and it is named only when its value is truthy
cascade_step(state, selected, value, method) ==
    IF state.final_ebitda = None /\ selected
    THEN [final_ebitda |-> value,
          tie_break_method |-> IF TruthyFloat(value) THEN method ELSE state.tie_break_method]
    ELSE state

\* [raised, value]: the merged record, or raised when the historical lookup raises
combine_results(rs, strat) ==
    LET opportunities == [i \in DOMAIN rs |-> rs[i].result.opportunity]
        ebitda_values == [i \in DOMAIN rs |-> opportunities[i].ebitda_millions]
        company_names == SelectSeq([i \in DOMAIN rs |-> opportunities[i].company_name],
                                   TruthyText)
        start == [final_ebitda |-> None, tie_break_method |-> tie_break("unknown")]
        consensus == fuzzy_consensus(ebitda_values, Tolerance)
        fuzzy == IF strat \in {"all", "fuzzy"} /\ TruthyFloat(consensus)
                 THEN [final_ebitda |-> consensus,
                       tie_break_method |-> tie_break("fuzzy_consensus (values within +-$1K)")]
                 ELSE start
        majority == cascade_step(fuzzy, strat \in {"all", "majority"},
                                 majority_vote(ebitda_values), tie_break("majority_vote"))
        selection == confidence_weighted(rs)
        weighted == cascade_step(majority, strat \in {"all", "weighted"}, selection.value,
                                 [method |-> "confidence_selection: ",
                                  parser |-> selection.reason.parser,
                                  score |-> selection.reason.score])
        prioritized == cascade_step(weighted, strat \in {"all", "prioritized"},
                                    source_prioritized(rs),
                                    tie_break("source_prioritized (attachment > body)"))
        consult == prioritized.final_ebitda = None /\ strat \in {"all", "historical"}
        company_name == IF company_names = <<>> THEN None ELSE company_names[1]
        lookup == IF consult
                  THEN validate_against_historical(company_name, ebitda_values)
                  ELSE [raised |-> FALSE, value |-> None]
        historical == cascade_step(prioritized, consult, lookup.value,
                                   tie_break("historical_validation"))
        final == IF historical.final_ebitda = None /\ first_available(ebitda_values) # None
                 THEN [final_ebitda |-> first_available(ebitda_values),
                       tie_break_method |-> tie_break("first_available")]
                 ELSE historical
        text(field) == FirstTruthyText([i \in DOMAIN rs |-> opportunities[i][field]])
    IN  [raised |-> lookup.raised,
         value |-> [InvestmentOpportunity EXCEPT
                      !.source_domain = text("source_domain"),
                      !.recipient = text("recipient"),
                      !.hq_location = select_best_field(rs, "location_options", "hq_location"),
                      !.ebitda_millions = final.final_ebitda,
                      !.date = FirstTruthyDate([i \in DOMAIN rs |-> opportunities[i].date]),
                      !.company_name = select_best_field(rs, "company_options", "company_name"),
                      !.sector = select_best_field(rs, "sector_options", "sector"),
                      !.raw_ebitda_text = Some(bracketed(final.tie_break_method))]]

----------------------------------------------------------------------------
(* EnsembleParser.__init__ *)

\* the order of the four blocks of __init__
ParserOrder == <<"NER", "LLM", "OCR", "Vision">>

ParserNames == {ParserOrder[i] : i \in DOMAIN ParserOrder}

\* whether the toggle of an extractor is set in the constructor's arguments
enabled(cfg, name) ==
    CASE name = "NER" -> cfg.use_ner
      [] name = "LLM" -> cfg.use_llm
      [] name = "OCR" -> cfg.use_ocr
      [] name = "Vision" -> cfg.use_vision

\* add_parser without the try/except: the exception leaves the constructor
add_parser_uncaught(state, cfg, name) ==
    IF enabled(cfg, name)
    THEN IF name \in cfg.broken
         THEN [state EXCEPT !.raised = TRUE]
         ELSE [state EXCEPT !.parsers = Append(@, name)]
    ELSE state

\* one block: if use_x: try: self.parsers.append((name, X())) except Exception: warning.
\* The state is self.parsers and whether an exception left the constructor.
add_parser(state, cfg, name) ==
    IF enabled(cfg, name) /\ name \notin cfg.broken
    THEN [state EXCEPT !.parsers = Append(@, name)]
    ELSE state

\* the historical table: read when a path is given and exists; a read that
\* raises is logged and leaves None
load_historical(csv) == IF csv.given /\ csv.exists THEN csv.content ELSE None

ensemble_init(cfg) ==
    LET blocks == add_parser(add_parser(add_parser(add_parser(
                      [parsers |-> <<>>, raised |-> FALSE],
                      cfg, "NER"), cfg, "LLM"), cfg, "OCR"), cfg, "Vision")
    IN  [parsers |-> blocks.parsers,
         raised |-> blocks.raised,
         historical_data |-> load_historical(cfg.csv)]

----------------------------------------------------------------------------
(* _run_single_parser and parse_data *)

\* getattr(parser, "extraction_source", None): no extractor class, and not
\* BaseParser, defines the attribute
extraction_source_attribute(name) == None

\* the tag each extractor's own parse() gives its result
parse_extraction_source(name) ==
    CASE name \in {"NER", "LLM"} -> "body"
      [] name \in {"OCR", "Vision"} -> "attachment"

ParserResult(opportunity, parser_name, extraction_source) ==
    [opportunity |-> opportunity, parser_name |-> parser_name,
     extraction_source |-> extraction_source]

\* behaviour is what parser.parse_data(email_data) does: it raises, or it
\* returns an opportunity.  The value is None or the (name, result) tuple.
run_single_parser(name, behaviour) ==
    IF behaviour.raises
    THEN None
    ELSE Some([name |-> name,
               result |-> ParserResult(
                   behaviour.opportunity, name,
                   IF extraction_source_attribute(name) = None
                   THEN "body"
                   ELSE extraction_source_attribute(name)[1])])

\* collect starting the list again when an extractor failed
collect_reset(rs, result) == IF result # None THEN Append(rs, result[1]) ELSE <<>>

\* if result is not None: results.append(result)
collect(rs, result) == IF result # None THEN Append(rs, result[1]) ELSE rs

----------------------------------------------------------------------------
(* Inputs *)

\* a table with one row: company "ab", LTM EBITDA 1
HistoricalTable ==
    <<[company |-> Some(<<"a", "b">>), ltm_ebitda |-> [kind |-> "float", val |-> Float(1, 1)]]>>

\* results_csv_path: not given, given but missing, unreadable, readable
CsvFiles ==
    {[given |-> FALSE, exists |-> FALSE, content |-> None],
     [given |-> TRUE, exists |-> FALSE, content |-> None],
     [given |-> TRUE, exists |-> TRUE, content |-> None],
     [given |-> TRUE, exists |-> TRUE, content |-> Some(HistoricalTable)]}

\* every way of calling the constructor
Configs ==
    [use_ner : BOOLEAN, use_llm : BOOLEAN, use_ocr : BOOLEAN, use_vision : BOOLEAN,
     broken : SUBSET ParserNames, csv : CsvFiles]

\* the engines that parse_data is run on: any toggles, the LLM extractor
\* buildable or not, no table or the readable one
EngineConfigs ==
    {cfg \in Configs : /\ cfg.broken \in {{}, {"LLM"}}
                       /\ cfg.csv.given = cfg.csv.exists
                       /\ cfg.csv.given = (cfg.csv.content # None)}

\* what an extractor may return for a document; a date is a day number, and
\* "" is the domain extract_domain returns for a sender such as "john@"
Opportunities ==
    {InvestmentOpportunity,
     [InvestmentOpportunity EXCEPT !.ebitda_millions = Some(Float(1, 1)),
                                   !.raw_ebitda_text = Some(<<"e">>),
                                   !.source_domain = Some(<<"k">>),
                                   !.recipient = Some(<<"r">>),
                                   !.date = Some(1),
                                   !.company_name = Some(<<"A", "b">>)],
     [InvestmentOpportunity EXCEPT !.ebitda_millions = Some(Float(2, 1)),
                                   !.source_domain = Some(<<"p">>),
                                   !.date = Some(2)],
     [InvestmentOpportunity EXCEPT !.source_domain = Some(<<>>),
                                   !.recipient = Some(<<>>),
                                   !.company_name = Some(<<"a", "(">>)]}

\* what a call of an extractor's parse_data may do
Behaviours ==
    {[raises |-> TRUE, opportunity |-> InvestmentOpportunity]}
        \cup {[raises |-> FALSE, opportunity |-> o] : o \in Opportunities}

EbitdaValues == {-2} \cup (0..MaxEbitda)

\* the outcomes _combine_results is checked on when it is checked alone: an
\* extractor with its tag and raw text, and either an EBITDA value or none
\* and a company name
CascadeProfiles ==
    {[name |-> "NER", extraction_source |-> "body", raw_ebitda_text |-> None],
     [name |-> "LLM", extraction_source |-> "body", raw_ebitda_text |-> Some(<<"e">>)],
     [name |-> "Vision", extraction_source |-> "attachment", raw_ebitda_text |-> Some(<<"e">>)]}

CascadeEntry(profile, ebitda, company_name) ==
    [name |-> profile.name,
     result |-> ParserResult(
         [InvestmentOpportunity EXCEPT !.ebitda_millions = ebitda,
                                       !.raw_ebitda_text = profile.raw_ebitda_text,
                                       !.company_name = company_name],
         profile.name, profile.extraction_source)]

CascadeEntries ==
    {CascadeEntry(p, Some(Float(v, 1)), None) : p \in CascadeProfiles, v \in EbitdaValues}
        \cup {CascadeEntry(p, None, c) :
                 p \in {q \in CascadeProfiles : q.name # "LLM"},
                 c \in {None, Some(<<"A", "b">>), Some(<<"a", "(">>)}}

CascadeInputs == UNION {[1..n -> CascadeEntries] : n \in 0..MaxOutcomes}

----------------------------------------------------------------------------
(* The engine *)

NoCalls == [n \in ParserNames |-> <<>>]

NoFutures == [n \in ParserNames |-> "none"]

NoFutureResults == [n \in ParserNames |-> None]

InParsers(n) == \E i \in DOMAIN parsers : parsers[i] = n

\* EnsembleParser(...): the constructor
Construct ==
    /\ pc = "new"
    /\ \E cfg \in Configs :
          /\ config' = Some(cfg)
          /\ parsers' = ensemble_init(cfg).parsers
          /\ historical_data' = ensemble_init(cfg).historical_data
          /\ pc' = IF ensemble_init(cfg).raised THEN "init_raised" ELSE "idle"
    /\ UNCHANGED <<parallel, idx, calls, futures, future_result, results, strategy, combined,
                   frame>>

\* parse_data(email_data, parallel) up to the dispatch: in parallel mode every
\* extractor is submitted to the pool, else the loop starts
ParseData ==
    /\ pc = "idle"
    /\ \E p \in BOOLEAN :
          /\ parallel' = p
          /\ IF p /\ Len(parsers) > 1
             THEN /\ pc' = "parallel"
                  /\ futures' = [n \in ParserNames |-> IF InParsers(n) THEN "pending" ELSE "none"]
             ELSE /\ pc' = IF Len(parsers) = 0 THEN "combine" ELSE "sequential"
                  /\ futures' = futures
    /\ results' = <<>>
    /\ idx' = 1
    /\ strategy' = "all"
    /\ UNCHANGED <<config, parsers, historical_data, calls, future_result, combined, frame>>

\* a pool thread runs _run_single_parser for one extractor
Worker ==
    /\ pc = "parallel"
    /\ \E n \in ParserNames, b \in Behaviours :
          /\ futures[n] = "pending"
          /\ calls' = [calls EXCEPT ![n] = Append(@, b)]
          /\ future_result' = [future_result EXCEPT ![n] = run_single_parser(n, b)]
          /\ futures' = [futures EXCEPT ![n] = "finished"]
    /\ UNCHANGED <<pc, config, parsers, historical_data, parallel, idx, results, strategy,
                   combined, frame>>

\* as_completed left after the first future it yields
AsCompleted_first ==
    /\ pc = "parallel"
    /\ \E n \in ParserNames :
          /\ futures[n] = "finished"
          /\ results' = collect(results, future_result[n])
          /\ futures' = [futures EXCEPT ![n] = "yielded"]
          /\ pc' = "combine"
    /\ UNCHANGED <<config, parsers, historical_data, parallel, idx, calls, future_result,
                   strategy, combined, frame>>

\* one turn of "for future in as_completed(...)": a finished future is
\* yielded and its result collected; after the last one the loop and the
\* pool are left
AsCompleted ==
    /\ pc = "parallel"
    /\ \E n \in ParserNames :
          /\ futures[n] = "finished"
          /\ results' = collect(results, future_result[n])
          /\ futures' = [futures EXCEPT ![n] = "yielded"]
          /\ pc' = IF \A m \in ParserNames \ {n} : futures[m] \in {"none", "yielded"}
                   THEN "combine"
                   ELSE "parallel"
    /\ UNCHANGED <<config, parsers, historical_data, parallel, idx, calls, future_result,
                   strategy, combined, frame>>

\* one turn of the sequential loop "for name, parser in self.parsers"
Sequential ==
    /\ pc = "sequential"
    /\ \E b \in Behaviours :
          /\ calls' = [calls EXCEPT ![parsers[idx]] = Append(@, b)]
          /\ results' = collect(results, run_single_parser(parsers[idx], b))
    /\ idx' = idx + 1
    /\ pc' = IF idx = Len(parsers) THEN "combine" ELSE "sequential"
    /\ UNCHANGED <<config, parsers, historical_data, parallel, futures, future_result,
                   strategy, combined, frame>>

\* return self._combine_results(results, strategy): the record is returned,
\* or the exception of the historical lookup leaves the call
Combine ==
    LET outcome == combine_results(results, strategy)
    IN  /\ pc = "combine"
        /\ pc' = IF outcome.raised THEN "raised" ELSE "returned"
        /\ combined' = IF outcome.raised THEN None ELSE Some(outcome.value)
        /\ UNCHANGED <<config, parsers, historical_data, parallel, idx, calls, futures,
                       future_result, results, strategy, frame>>

----------------------------------------------------------------------------
(* Specifications *)

\* a constructed engine, then one call of parse_data
Init ==
    /\ pc = "idle"
    /\ \E cfg \in EngineConfigs :
          /\ config = Some(cfg)
          /\ parsers = ensemble_init(cfg).parsers
          /\ historical_data = ensemble_init(cfg).historical_data
    /\ parallel = FALSE
    /\ idx = 1
    /\ calls = NoCalls
    /\ futures = NoFutures
    /\ future_result = NoFutureResults
    /\ results = <<>>
    /\ strategy = "all"
    /\ combined = None
    /\ frame = None

Next == ParseData \/ Worker \/ AsCompleted \/ Sequential \/ Combine

Spec == Init /\ [][Next]_vars

\* the constructor, from any arguments
InitNew ==
    /\ pc = "new"
    /\ config = None
    /\ parsers = <<>>
    /\ historical_data = None
    /\ parallel = FALSE
    /\ idx = 1
    /\ calls = NoCalls
    /\ futures = NoFutures
    /\ future_result = NoFutureResults
    /\ results = <<>>
    /\ strategy = "all"
    /\ combined = None
    /\ frame = None

SpecInit == InitNew /\ [][Construct]_vars

\* _combine_results alone, on any outcome list of the inputs, with the
\* historical table loaded
InitCascade ==
    /\ pc = "combine"
    /\ config = None
    /\ parsers = <<>>
    /\ historical_data = Some(HistoricalTable)
    /\ parallel = FALSE
    /\ idx = 1
    /\ calls = NoCalls
    /\ futures = NoFutures
    /\ future_result = NoFutureResults
    /\ results \in CascadeInputs
    /\ strategy = "all"
    /\ combined = None
    /\ frame = None

SpecCascade == InitCascade /\ [][Combine]_vars

----------------------------------------------------------------------------
(* The strategy functions, each called on its own.  frame holds the call:  *)
(* the function, the historical table of self, the arguments, the locals   *)
(* of the clustering loop and, once the call has returned, Some(value).    *)

Frame(fn, table, args, locals) ==
    Some([fn |-> fn, self |-> [historical_data |-> table], args |-> args,
          locals |-> locals, ret |-> None])

\* the frame once the call has returned value
Return(value) == Some([frame[1] EXCEPT !.ret = Some(value)])

OptionalFloats == {None} \cup {Some(Float(v, 1)) : v \in EbitdaValues}

ValueLists == UNION {[1..n -> OptionalFloats] : n \in 0..MaxValues}

FuzzyMatchCall(a, b, t) ==
    Frame("fuzzy_match_ebitda", None, [predicted |-> a, actual |-> b, tolerance |-> t], <<>>)

FuzzyConsensusCall(values, tolerance) ==
    Frame("_fuzzy_consensus", None, [values |-> values, tolerance |-> tolerance],
          [i |-> 1, clusters |-> <<>>])

MajorityVoteCall(values) == Frame("_majority_vote", None, [values |-> values], <<>>)

ConfidenceWeightedCall(rs) == Frame("_confidence_weighted", None, [results |-> rs], <<>>)

SourcePrioritizedCall(rs) == Frame("_source_prioritized", None, [results |-> rs], <<>>)

ValidateCall(table, company_name, ebitda_values) ==
    Frame("_validate_against_historical", table,
          [company_name |-> company_name, ebitda_values |-> ebitda_values], <<>>)

CombineCall(rs) ==
    Frame("_combine_results", Some(HistoricalTable), [results |-> rs, strategy |-> "all"], <<>>)

\* 5.2, 5.2, 5.2, 3.6 in units
ClusterExample ==
    <<Some(Float(15600, 1)), Some(Float(15600, 1)), Some(Float(15600, 1)), Some(Float(10800, 1))>>

\* extractors with their tag and raw text: the four of the weight table and
\* one it does not name, the three tags of the weight table and two others
StrategyProfiles ==
    {[name |-> "NER", extraction_source |-> "body", raw_ebitda_text |-> Some(<<"e">>)],
     [name |-> "LLM", extraction_source |-> "body", raw_ebitda_text |-> Some(<<"e">>)],
     [name |-> "Vision", extraction_source |-> "attachment", raw_ebitda_text |-> Some(<<"e">>)],
     [name |-> "OCR", extraction_source |-> "both", raw_ebitda_text |-> None],
     [name |-> "Layout", extraction_source |-> "unknown", raw_ebitda_text |-> Some(<<"e">>)],
     [name |-> "NER", extraction_source |-> "error", raw_ebitda_text |-> None]}

StrategyEntries ==
    {CascadeEntry(p, Some(Float(v, 1)), None) : p \in StrategyProfiles, v \in {0, 1}}
        \cup {CascadeEntry(p, None, None) :
                 p \in {q \in StrategyProfiles : q.name \in {"LLM", "Vision"}}}

StrategyInputs == UNION {[1..n -> StrategyEntries] : n \in 0..MaxOutcomes}

\* 4.5 (NER, body), 6.0 (LLM, body), 3.6 (Vision, attachment), all with raw text
WeightedExample ==
    <<CascadeEntry([name |-> "NER", extraction_source |-> "body",
                    raw_ebitda_text |-> Some(<<"e">>)], Some(Float(13500, 1)), None),
      CascadeEntry([name |-> "LLM", extraction_source |-> "body",
                    raw_ebitda_text |-> Some(<<"e">>)], Some(Float(18000, 1)), None),
      CascadeEntry([name |-> "Vision", extraction_source |-> "attachment",
                    raw_ebitda_text |-> Some(<<"e">>)], Some(Float(10800, 1)), None)>>

Row(company, kind, val) ==
    [company |-> company, ltm_ebitda |-> [kind |-> kind, val |-> Float(val, 1)]]

\* self.historical_data: no table; one row "ab" whose EBITDA cell is of each
\* kind; three rows, the first without a company, the next two both holding "b"
HistoricalTables ==
    {None}
        \cup {Some(<<Row(Some(<<"a", "b">>), k, 1)>>) :
                 k \in {"float", "nan", "n.a.", "money", "text"}}
        \cup {Some(<<Row(None, "float", 2), Row(Some(<<"c", "b">>), "float", 0),
                     Row(Some(<<"a", "b">>), "float", 2)>>)}

CompanyNames ==
    {None, Some(<<>>), Some(<<"A", "b">>), Some(<<"b">>), Some(<<"k">>), Some(<<"a", "(">>)}

CandidateLists == UNION {[1..n -> OptionalFloats] : n \in 0..MaxOutcomes}

\* candidates 5.0 and 7.0, historical record "$6.2" for the matched company
HistoricalExample ==
    ValidateCall(Some(<<Row(Some(<<"a", "b">>), "money", 18600)>>), Some(<<"A", "b">>),
                 <<Some(Float(15000, 1)), Some(Float(21000, 1))>>)

\* 4.5 (NER, body, no raw text), 4.5 (LLM, body, raw text),
\* 3.6 (Vision, attachment, raw text)
AgreementExample ==
    <<CascadeEntry([name |-> "NER", extraction_source |-> "body",
                    raw_ebitda_text |-> None], Some(Float(13500, 1)), None),
      CascadeEntry([name |-> "LLM", extraction_source |-> "body",
                    raw_ebitda_text |-> Some(<<"e">>)], Some(Float(13500, 1)), None),
      CascadeEntry([name |-> "Vision", extraction_source |-> "attachment",
                    raw_ebitda_text |-> Some(<<"e">>)], Some(Float(10800, 1)), None)>>

\* outcome lists in which one outcome, tagged "attachment" and of the OCR or
\* the Vision extractor, has an EBITDA value and every other outcome has none
AttachmentOnlyInputs ==
    LET valued == {CascadeEntry(p, Some(Float(v, 1)), None) :
                      p \in {[name |-> "OCR", extraction_source |-> "attachment",
                               raw_ebitda_text |-> None],
                              [name |-> "Vision", extraction_source |-> "attachment",
                               raw_ebitda_text |-> Some(<<"e">>)]},
                      v \in EbitdaValues}
        empty == {CascadeEntry(p, None, c) :
                      p \in {[name |-> "LLM", extraction_source |-> "body",
                               raw_ebitda_text |-> Some(<<"e">>)],
                              [name |-> "NER", extraction_source |-> "body",
                               raw_ebitda_text |-> None],
                              [name |-> "OCR", extraction_source |-> "attachment",
                               raw_ebitda_text |-> None]},
                      c \in {None, Some(<<"A", "b">>)}}
    IN  UNION {{rs \in [1..n -> valued \cup empty] :
                  Cardinality({i \in 1..n : rs[i] \in valued}) = 1} : n \in 1..MaxOutcomes}

\* _combine_results(results, strategy) on an engine with the given table
CombineCallWith(table, rs, strat) ==
    Frame("_combine_results", table, [results |-> rs, strategy |-> strat], <<>>)

\* the outcomes _combine_results is given with a named strategy: an EBITDA
\* value of the NER extractor (body) or of the OCR extractor tagged "both",
\* or no EBITDA and a company name (none, one of the table, one that is not
\* a regular expression)
NamedStrategyEntries ==
    {CascadeEntry(p, Some(Float(v, 1)), None) :
        p \in {[name |-> "NER", extraction_source |-> "body", raw_ebitda_text |-> None],
                [name |-> "OCR", extraction_source |-> "both", raw_ebitda_text |-> None]},
        v \in {-2, 1, 2}}
        \cup {CascadeEntry([name |-> "NER", extraction_source |-> "body",
                            raw_ebitda_text |-> None], None, c) :
                 c \in {None, Some(<<"A", "b">>), Some(<<"a", "(">>)}}

NamedStrategyInputs == UNION {[1..n -> NamedStrategyEntries] : n \in 0..MaxOutcomes}

\* the strategy argument and the state of the historical table it is tried
\* with: every named strategy with the table of one number, "historical" and
\* "all" also with a cell "n.a." and "historical" with a cell float() rejects
NamedStrategies ==
    {<<strat, Some(HistoricalTable)>> :
        strat \in {"fuzzy", "majority", "weighted", "prioritized", "historical"}}
        \cup {<<strat, Some(<<Row(Some(<<"a", "b">>), "n.a.", 1)>>)>> :
                 strat \in {"historical", "all"}}
        \cup {<<"historical", Some(<<Row(Some(<<"a", "b">>), "text", 1)>>)>>}

\* an outcome with its scalar EBITDA and its EBITDA options
OptionsEntry(profile, ebitda, ebitda_options) ==
    [name |-> profile.name,
     result |-> ParserResult(
         [InvestmentOpportunity EXCEPT !.ebitda_millions = ebitda,
                                       !.raw_ebitda_text = profile.raw_ebitda_text,
                                       !.ebitda_options = ebitda_options],
         profile.name, profile.extraction_source)]

\* the outcomes _combine_results is given to see what it reads: the NER or
\* the LLM extractor, no EBITDA or one of two values too far apart for a
\* consensus (-2 and 2 units), and no EBITDA option or one of another value
OptionsEntries ==
    {OptionsEntry(p, e, o) :
        p \in {[name |-> "NER", extraction_source |-> "body", raw_ebitda_text |-> None],
                [name |-> "LLM", extraction_source |-> "body", raw_ebitda_text |-> Some(<<"e">>)]},
        e \in {None, Some(Float(-2, 1)), Some(Float(2, 1))},
        o \in {<<>>, <<[value |-> Some(Float(1, 1)), confidence |-> 10]>>}}

OptionsInputs == UNION {[1..n -> OptionsEntries] : n \in 0..MaxOutcomes}

\* FieldOption(value=..., confidence=...): the value is any value, None
\* included, and the confidence is in tenths
FieldOption(value, confidence) == [value |-> value, confidence |-> confidence]

\* an outcome with its location options and its scalar hq_location
FieldEntry(name, extraction_source, location_options, hq_location) ==
    [name |-> name,
     result |-> ParserResult(
         [InvestmentOpportunity EXCEPT !.location_options = location_options,
                                       !.hq_location = hq_location],
         name, extraction_source)]

\* the outcomes _select_best_field is checked on: outcomes with a scalar
\* value only (of a preferred extractor or not, the value empty or not),
\* with options of equal score in two outcomes (1.0 x 0.5 and 0.5 x 1.0) and
\* in one list, with an option of confidence 0.0, with an option whose value
\* is None, and with the option of the highest score
FieldEntries ==
    {FieldEntry("LLM", "body", <<>>, Some(<<"s">>)),
     FieldEntry("LLM", "body", <<>>, None),
     FieldEntry("LLM", "body", <<FieldOption(Some(<<"y">>), 5)>>, None),
     FieldEntry("OCR", "body", <<FieldOption(Some(<<"x">>), 10)>>, Some(<<"t">>)),
     FieldEntry("OCR", "body", <<FieldOption(Some(<<"x">>), 0)>>, None),
     FieldEntry("OCR", "body", <<>>, Some(<<"t">>)),
     FieldEntry("OCR", "body", <<>>, Some(<<>>)),
     FieldEntry("NER", "body", <<FieldOption(Some(<<"x">>), 5), FieldOption(Some(<<"y">>), 5)>>,
                None),
     FieldEntry("NER", "body", <<FieldOption(None, 10)>>, Some(<<"u">>)),
     FieldEntry("Vision", "attachment", <<FieldOption(Some(<<"y">>), 10)>>, None)}

FieldInputs == UNION {[1..n -> FieldEntries] : n \in 0..MaxOutcomes}

SelectBestFieldCall(rs) ==
    Frame("_select_best_field", None,
          [results |-> rs, options_field |-> "location_options",
           fallback_field |-> "hq_location"], <<>>)

\* ParserResult with its errors list
ParserResultWithErrors(opportunity, parser_name, extraction_source, errors) ==
    [opportunity |-> opportunity, parser_name |-> parser_name,
     extraction_source |-> extraction_source, errors |-> errors]

\* BaseParser.parse letting the exception of parse_data through
parse_uncaught(name, msg_file, behaviour) ==
    IF msg_file.raises
    THEN [raised |-> FALSE,
          value |-> ParserResultWithErrors(InvestmentOpportunity, name, "error",
                                           <<msg_file.text>>)]
    ELSE IF behaviour.raises
         THEN [raised |-> TRUE,
               value |-> ParserResultWithErrors(InvestmentOpportunity, name, "error", <<>>)]
         ELSE [raised |-> FALSE,
               value |-> ParserResultWithErrors(behaviour.opportunity, name, "unknown", <<>>)]

\* BaseParser.parse(msg_path): msg_file is what extract_msg_file does and
\* behaviour what parse_data does, each raising an exception with a text or
\* returning; errors is the list that starts empty and gets str(e)
parse(name, msg_file, behaviour) ==
    IF msg_file.raises
    THEN [raised |-> FALSE,
          value |-> ParserResultWithErrors(InvestmentOpportunity, name, "error",
                                           Append(<<>>, msg_file.text))]
    ELSE IF behaviour.raises
         THEN [raised |-> FALSE,
               value |-> ParserResultWithErrors(InvestmentOpportunity, name, "error",
                                                Append(<<>>, behaviour.text))]
         ELSE [raised |-> FALSE,
               value |-> ParserResultWithErrors(behaviour.opportunity, name, "unknown", <<>>)]

\* extract_msg_file(msg_path): it raises (a missing or unreadable file) or
\* returns the email data
MsgFiles == {[raises |-> TRUE, text |-> <<"m">>], [raises |-> FALSE, text |-> <<>>]}

\* parse_data(email_data) of the subclass: it raises or returns an opportunity
ParseDataBehaviours ==
    {[raises |-> TRUE, text |-> <<"p">>, opportunity |-> InvestmentOpportunity]}
        \cup {[raises |-> FALSE, text |-> <<>>, opportunity |-> o] : o \in Opportunities}

ParseCall(name, msg_file, behaviour) ==
    Frame("parse", None, [name |-> name, msg_file |-> msg_file, behaviour |-> behaviour], <<>>)

Calling(fn) == pc = "call" /\ frame[1].fn = fn

FuzzyMatchEbitda ==
    /\ Calling("fuzzy_match_ebitda")
    /\ frame' = Return(fuzzy_match_ebitda(frame[1].args.predicted, frame[1].args.actual,
                                          frame[1].args.tolerance))
    /\ pc' = "done"
    /\ UNCHANGED <<config, parsers, historical_data, parallel, idx, calls, futures,
                   future_result, results, strategy, combined>>

\* one turn of "for value in valid_values" in _fuzzy_consensus
FuzzyCluster ==
    /\ Calling("_fuzzy_consensus")
    /\ frame[1].locals.i <= Len(valid_values(frame[1].args.values))
    /\ frame' = Some([frame[1] EXCEPT
                         !.locals.clusters =
                             add_to_clusters(@, valid_values(frame[1].args.values)[frame[1].locals.i],
                                             frame[1].args.tolerance),
                         !.locals.i = @ + 1])
    /\ UNCHANGED <<pc, config, parsers, historical_data, parallel, idx, calls, futures,
                   future_result, results, strategy, combined>>

\* _fuzzy_consensus after the loop (at once when valid_values is empty)
FuzzyConsensus ==
    /\ Calling("_fuzzy_consensus")
    /\ frame[1].locals.i > Len(valid_values(frame[1].args.values))
    /\ frame' = Return(consensus_of(valid_values(frame[1].args.values),
                                    frame[1].locals.clusters))
    /\ pc' = "done"
    /\ UNCHANGED <<config, parsers, historical_data, parallel, idx, calls, futures,
                   future_result, results, strategy, combined>>

MajorityVote ==
    /\ Calling("_majority_vote")
    /\ frame' = Return(majority_vote(frame[1].args.values))
    /\ pc' = "done"
    /\ UNCHANGED <<config, parsers, historical_data, parallel, idx, calls, futures,
                   future_result, results, strategy, combined>>

ConfidenceWeighted ==
    /\ Calling("_confidence_weighted")
    /\ frame' = Return(confidence_weighted(frame[1].args.results))
    /\ pc' = "done"
    /\ UNCHANGED <<config, parsers, historical_data, parallel, idx, calls, futures,
                   future_result, results, strategy, combined>>

SourcePrioritized ==
    /\ Calling("_source_prioritized")
    /\ frame' = Return(source_prioritized(frame[1].args.results))
    /\ pc' = "done"
    /\ UNCHANGED <<config, parsers, historical_data, parallel, idx, calls, futures,
                   future_result, results, strategy, combined>>

\* _validate_against_historical returns, or str.contains raises out of it
ValidateAgainstHistorical ==
    LET outcome == validate_against_historical(frame[1].args.company_name,
                                               frame[1].args.ebitda_values)
    IN  /\ Calling("_validate_against_historical")
        /\ IF outcome.raised
           THEN frame' = frame /\ pc' = "raised"
           ELSE frame' = Return(outcome.value) /\ pc' = "done"
        /\ UNCHANGED <<config, parsers, historical_data, parallel, idx, calls, futures,
                       future_result, results, strategy, combined>>

Parse ==
    LET outcome == parse(frame[1].args.name, frame[1].args.msg_file, frame[1].args.behaviour)
    IN  /\ Calling("parse")
        /\ IF outcome.raised
           THEN frame' = frame /\ pc' = "raised"
           ELSE frame' = Return(outcome.value) /\ pc' = "done"
        /\ UNCHANGED <<config, parsers, historical_data, parallel, idx, calls, futures,
                       future_result, results, strategy, combined>>

SelectBestField ==
    /\ Calling("_select_best_field")
    /\ frame' = Return(select_best_field(frame[1].args.results, frame[1].args.options_field,
                                         frame[1].args.fallback_field))
    /\ pc' = "done"
    /\ UNCHANGED <<config, parsers, historical_data, parallel, idx, calls, futures,
                   future_result, results, strategy, combined>>

\* _combine_results called on its own
CombineResults ==
    LET outcome == combine_results(frame[1].args.results, frame[1].args.strategy)
    IN  /\ Calling("_combine_results")
        /\ IF outcome.raised
           THEN frame' = frame /\ pc' = "raised"
           ELSE frame' = Return(outcome.value) /\ pc' = "done"
        /\ UNCHANGED <<config, parsers, historical_data, parallel, idx, calls, futures,
                       future_result, results, strategy, combined>>

InitStrategy ==
    /\ pc = "call"
    /\ config = None
    /\ parsers = <<>>
    /\ \/ \E a \in OptionalFloats, b \in OptionalFloats, t \in 0..Tolerance :
              frame = FuzzyMatchCall(a, b, t)
       \/ \E v \in ValueLists, t \in {1, Tolerance} : frame = FuzzyConsensusCall(v, t)
       \/ \E t \in {1, Tolerance} : frame = FuzzyConsensusCall(ClusterExample, t)
       \/ \E v \in ValueLists : frame = MajorityVoteCall(v)
       \/ frame = MajorityVoteCall(ClusterExample)
       \/ \E rs \in StrategyInputs : frame = ConfidenceWeightedCall(rs)
       \/ frame = ConfidenceWeightedCall(WeightedExample)
       \/ \E rs \in StrategyInputs : frame = SourcePrioritizedCall(rs)
       \/ \E h \in HistoricalTables, c \in CompanyNames, v \in CandidateLists :
              frame = ValidateCall(h, c, v)
       \/ frame = HistoricalExample
       \/ \E rs \in AttachmentOnlyInputs : frame = CombineCall(rs)
       \/ \E rs \in {WeightedExample, AgreementExample} : frame = CombineCall(rs)
       \/ \E rs \in NamedStrategyInputs, st \in NamedStrategies :
              frame = CombineCallWith(st[2], rs, st[1])
       \/ \E rs \in OptionsInputs : frame = CombineCall(rs)
       \/ \E rs \in FieldInputs : frame = SelectBestFieldCall(rs)
       \/ \E n \in ParserNames, m \in MsgFiles, b \in ParseDataBehaviours :
              frame = ParseCall(n, m, b)
    /\ historical_data = frame[1].self.historical_data
    /\ parallel = FALSE
    /\ idx = 1
    /\ calls = NoCalls
    /\ futures = NoFutures
    /\ future_result = NoFutureResults
    /\ results = <<>>
    /\ strategy = "all"
    /\ combined = None

NextStrategy ==
    \/ FuzzyMatchEbitda
    \/ FuzzyCluster
    \/ FuzzyConsensus
    \/ MajorityVote
    \/ ConfidenceWeighted
    \/ SourcePrioritized
    \/ ValidateAgainstHistorical
    \/ SelectBestField
    \/ Parse
    \/ CombineResults

SpecStrategy == InitStrategy /\ [][NextStrategy]_vars

----------------------------------------------------------------------------
(* Claims *)

EbitdaOf(rs) == [i \in DOMAIN rs |-> rs[i].result.opportunity.ebitda_millions]

\* what each of the six strategies answers on the outcome list, in cascade order
StrategyAnswers(rs) ==
    LET names == SelectSeq([i \in DOMAIN rs |-> rs[i].result.opportunity.company_name],
                           TruthyText)
    IN  <<fuzzy_consensus(EbitdaOf(rs), Tolerance),
          majority_vote(EbitdaOf(rs)),
          confidence_weighted(rs).value,
          source_prioritized(rs),
          validate_against_historical(IF names = <<>> THEN None ELSE names[1],
                                      EbitdaOf(rs)).value,
          first_available(EbitdaOf(rs))>>

StrategyMethods ==
    <<"fuzzy_consensus (values within +-$1K)", "majority_vote", "confidence_selection: ",
      "source_prioritized (attachment > body)", "historical_validation", "first_available">>

\* the method named in the merged record's raw_ebitda_text
MethodOf(record) == record.raw_ebitda_text[1][2].method

Returned == pc = "returned"

\* C1: with strategy "all" the merged EBITDA is the answer of the first
\* strategy, in cascade order, whose answer is not null (0.0 and negative
\* values included), and raw_ebitda_text holds the label of that strategy.
C1_FirstNonNullStrategyWins ==
    (Returned /\ strategy = "all") =>
        LET answers == StrategyAnswers(results)
            first == CHOOSE i \in 1..6 :
                        answers[i] # None /\ \A j \in 1..(i - 1) : answers[j] = None
        IN  (\E i \in 1..6 : answers[i] # None) =>
                /\ combined[1].ebitda_millions = answers[first]
                /\ MethodOf(combined[1]) = StrategyMethods[first]

\* extractor n is configured and its parse_data was called
Dispatched(n) == InParsers(n) /\ Len(calls[n]) > 0

Handed == pc \in {"combine", "returned", "raised"}

\* C2: when the outcome list is handed to _combine_results, in parallel and in
\* sequential mode, every configured extractor has been invoked, the outcome
\* of every extractor that did not raise is in the list, and no extractor
\* that raised has an entry in it.
C2_RaisingExtractorsAreIsolated ==
    Handed =>
        \A n \in ParserNames :
            InParsers(n) =>
                /\ Len(calls[n]) = 1
                /\ IF calls[n][1].raises
                   THEN \A i \in DOMAIN results : results[i].name # n
                   ELSE \E i \in DOMAIN results :
                            /\ results[i].name = n
                            /\ results[i].result.opportunity = calls[n][1].opportunity

\* C2, witness: parallel mode, one extractor raised and another returned
C2_Witness ==
    /\ pc = "combine"
    /\ parallel /\ Len(parsers) > 1
    /\ \E n, m \in ParserNames :
          /\ Dispatched(n) /\ calls[n][1].raises
          /\ Dispatched(m) /\ ~calls[m][1].raises

\* every configured extractor raised, or none is configured
ZeroSucceeded ==
    /\ pc \in {"returned", "raised"}
    /\ \A n \in ParserNames : InParsers(n) => (Len(calls[n]) = 1 /\ calls[n][1].raises)

\* C3 as stated: if zero extractors succeed, parse_data returns, without
\* raising, a record in which every field is null, raw_ebitda_text included.
C3_AllNullRecord ==
    ZeroSucceeded => (Returned /\ combined = Some(InvestmentOpportunity))

\* C3 as amended: if zero extractors succeed, parse_data returns, without
\* raising, a record in which every field is null except raw_ebitda_text,
\* which is the placeholder "[unknown]" that names no strategy.
C3_AllNullButUnknownLabel ==
    ZeroSucceeded =>
        /\ Returned
        /\ combined = Some([InvestmentOpportunity EXCEPT
                               !.raw_ebitda_text = Some(bracketed(tie_break("unknown")))])

\* C3, witness: several extractors are configured and every one raised
C3_Witness == ZeroSucceeded /\ Returned /\ Len(parsers) > 1

\* a non-empty outcome list without any EBITDA value was combined
NoEbitdaAtAll ==
    /\ Returned
    /\ results # <<>>
    /\ \A i \in DOMAIN results : results[i].result.opportunity.ebitda_millions = None

CanonicalOrder(rs) ==
    LET names == SelectSeq(parsers, LAMBDA n : \E i \in DOMAIN rs : rs[i].name = n)
    IN  [k \in DOMAIN names |-> rs[CHOOSE i \in DOMAIN rs : rs[i].name = names[k]]]

\* C5: in parallel mode the merged record does not depend on the order in
\* which the extractors complete: it is the record of the same outcomes
\* taken in the order of the configured extractor list.
C5_CompletionOrderIrrelevant ==
    (Returned /\ parallel /\ Len(parsers) > 1) =>
        combined = Some(combine_results(CanonicalOrder(results), "all").value)

\* C6: every outcome handed to the reconciler carries the extraction source
\* of its extractor: "attachment" for OCR and Vision, "body" for NER and LLM.
C6_OutcomesCarryTheirSource ==
    \A i \in DOMAIN results :
        results[i].result.extraction_source = parse_extraction_source(results[i].name)

\* C7: the merged EBITDA is null or exactly the EBITDA of one of the outcomes:
\* _combine_results never averages.
C7_NeverAverages ==
    Returned =>
        \/ combined[1].ebitda_millions = None
        \/ \E i \in DOMAIN results :
              results[i].result.opportunity.ebitda_millions = combined[1].ebitda_millions

\* position of an extractor in the fixed order NER, LLM, OCR, Vision
OrderOf(n) == CHOOSE i \in DOMAIN ParserOrder : ParserOrder[i] = n

\* C8: the constructor never fails because an enabled extractor cannot be
\* built, and the extractor list holds exactly the enabled extractors that
\* could be built, in the order NER, LLM, OCR, Vision, each at most once.
C8_ConstructorOmitsBrokenExtractors ==
    /\ pc # "init_raised"
    /\ pc = "idle" =>
          /\ \A n \in ParserNames :
                InParsers(n) <=> (enabled(config[1], n) /\ n \notin config[1].broken)
          /\ \A i, j \in DOMAIN parsers :
                i < j => OrderOf(parsers[i]) < OrderOf(parsers[j])

\* C8, witness: an enabled extractor could not be built and two others were
C8_Witness ==
    /\ pc = "idle"
    /\ \E n \in ParserNames : enabled(config[1], n) /\ n \in config[1].broken
    /\ Len(parsers) > 1

\* C9: parse_data never raises to its caller, whatever the extractors return
\* or raise.
C9_ParseDataNeverRaises == pc # "raised"

\* field of the merged record is the value of the first outcome of rs that
\* has one (a value that is not null and, when skip_empty, not the empty
\* text), and null when no outcome has one
TakenFromFirst(field, merged, rs, skip_empty) ==
    LET value(i) == rs[i].result.opportunity[field]
        has(i) == value(i) # None /\ (skip_empty => value(i)[1] # <<>>)
    IN  IF \E i \in DOMAIN rs : has(i)
        THEN \E i \in DOMAIN rs :
                /\ has(i)
                /\ \A j \in 1..(i - 1) : ~has(j)
                /\ merged[field] = value(i)
        ELSE merged[field] = None

\* C11 as stated: source_domain, recipient and date of the merged record are
\* each the value of the first outcome, in list order, whose value for the
\* field is not null, and null when no outcome has one.
C11_FirstNonNullFields ==
    Returned =>
        \A field \in {"source_domain", "recipient", "date"} :
            TakenFromFirst(field, combined[1], results, FALSE)

\* C11 as amended: source_domain and recipient of the merged record are each
\* the value of the first outcome, in list order, whose value for the field is
\* neither null nor the empty text (an empty text counts as no value); date
\* is the value of the first outcome whose date is not null; each is null
\* when no outcome has such a value.
C11_FirstNonEmptyFields ==
    Returned =>
        /\ TakenFromFirst("source_domain", combined[1], results, TRUE)
        /\ TakenFromFirst("recipient", combined[1], results, TRUE)
        /\ TakenFromFirst("date", combined[1], results, FALSE)

\* C11, witness: the first outcome has an empty source_domain and no date,
\* a later outcome has both, and the record takes them from the later one
C11_Witness ==
    /\ Returned
    /\ Len(results) > 1
    /\ results[1].result.opportunity.source_domain = Some(<<>>)
    /\ results[1].result.opportunity.date = None
    /\ combined[1].source_domain = Some(<<"k">>)
    /\ combined[1].date = Some(1)

\* the call of fn held in frame has returned
ReturnedFrom(fn) == pc = "done" /\ frame[1].fn = fn

\* C12: fuzzy_match_ebitda(a, b, tol) is true exactly when a and b are both
\* not null and |a - b| <= tol, the boundary |a - b| = tol included; it is
\* false when either is null; and it gives the same answer for (b, a, tol).
C12_FuzzyMatchWithinTolerance ==
    ReturnedFrom("fuzzy_match_ebitda") =>
        LET a == frame[1].args.predicted
            b == frame[1].args.actual
            tol == frame[1].args.tolerance
            within == IF a = None \/ b = None
                      THEN FALSE
                      ELSE /\ a[1][1] * b[1][2] - b[1][1] * a[1][2] <= tol * a[1][2] * b[1][2]
                           /\ b[1][1] * a[1][2] - a[1][1] * b[1][2] <= tol * a[1][2] * b[1][2]
        IN  /\ frame[1].ret = Some(within)
            /\ frame[1].ret = Some(fuzzy_match_ebitda(b, a, tol))

\* C12, witness: two different values exactly tol apart are matched
C12_Witness ==
    /\ ReturnedFrom("fuzzy_match_ebitda")
    /\ frame[1].args.predicted = Some(Float(-2, 1))
    /\ frame[1].args.actual = Some(Float(1, 1))
    /\ frame[1].args.tolerance = 3
    /\ frame[1].ret = Some(TRUE)

\* the non-null values of the list, in list order, written without SelectSeq
NonNull(values) ==
    LET at == {i \in DOMAIN values : values[i] # None}
        rank(i) == Cardinality({j \in at : j <= i})
    IN  [k \in 1..Cardinality(at) |-> values[CHOOSE i \in at : rank(i) = k]]

\* C13: each turn of the clustering loop of _fuzzy_consensus takes the next
\* non-null value in list order and puts it at the end of the first cluster,
\* in creation order, whose first member is within the tolerance of it, or,
\* when there is none, in a new last cluster of its own; every other cluster
\* is left as it is and the first member of a cluster never changes.
C13_FirstFitClustering ==
    [][(Calling("_fuzzy_consensus") /\ pc' = "call") =>
          LET old == frame[1].locals.clusters
              new == frame'[1].locals.clusters
              value == NonNull(frame[1].args.values)[frame[1].locals.i]
              fits(c) == fuzzy_match_ebitda(value, old[c][1], frame[1].args.tolerance)
          IN  /\ frame'[1].locals.i = frame[1].locals.i + 1
              /\ IF \E c \in DOMAIN old : fits(c)
                 THEN \E c \in DOMAIN old :
                        /\ fits(c)
                        /\ \A b \in 1..(c - 1) : ~fits(b)
                        /\ DOMAIN new = DOMAIN old
                        /\ new[c] = Append(old[c], value)
                        /\ \A b \in DOMAIN old \ {c} : new[b] = old[b]
                 ELSE new = Append(old, <<value>>)
              /\ \A c \in DOMAIN old : new[c][1] = old[c][1]]_vars

\* C13, witness: with tolerance 3 the value 0 fits both clusters, of -2 and
\* of 2, and joined the first; 1 then joined the cluster of -2, its
\* representative, although the representative 2 is nearer
C13_Witness ==
    /\ Calling("_fuzzy_consensus")
    /\ frame[1].args.tolerance = 3
    /\ frame[1].locals.clusters =
          <<<<Some(Float(-2, 1)), Some(Float(0, 1)), Some(Float(1, 1))>>, <<Some(Float(2, 1))>>>>

\* the sum of the members of a cluster of whole numbers of units
RECURSIVE Total(_)
Total(cluster) ==
    IF cluster = <<>> THEN 0 ELSE Total(Front(cluster)) + Last(cluster)[1][1]

\* value is the arithmetic mean of the cluster
IsMeanOf(value, cluster) ==
    value # None /\ value[1][1] * Len(cluster) = Total(cluster) * value[1][2]

\* C14: _fuzzy_consensus returns the arithmetic mean of the largest cluster
\* when the size of that cluster is strictly greater than half the number of
\* non-null values, and null otherwise, so also for an empty or all-null
\* list; for [5.2, 5.2, 5.2, 3.6] and tolerance 0.001 it returns 5.2.
C14_MeanOfStrictMajorityCluster ==
    ReturnedFrom("_fuzzy_consensus") =>
        LET valid == NonNull(frame[1].args.values)
            clusters == frame[1].locals.clusters
            largest == {c \in DOMAIN clusters :
                           \A b \in DOMAIN clusters : Len(clusters[b]) <= Len(clusters[c])}
            value == frame[1].ret[1]
        IN  /\ IF \E c \in largest : Len(clusters[c]) * 2 > Len(valid)
               THEN \E c \in largest : IsMeanOf(value, clusters[c])
               ELSE value = None
            /\ (frame[1].args.values = ClusterExample /\ frame[1].args.tolerance = Tolerance)
                  => value = Some(Float(15600, 1))

\* C14, witness: the three values 5.2 of [5.2, 5.2, 5.2, 3.6] made the
\* largest cluster and 5.2 was returned
C14_Witness ==
    /\ ReturnedFrom("_fuzzy_consensus")
    /\ frame[1].args.values = ClusterExample
    /\ frame[1].args.tolerance = Tolerance
    /\ Len(frame[1].locals.clusters) = 2
    /\ frame[1].ret = Some(Some(Float(15600, 1)))

\* C15: _majority_vote returns the value that is, exactly, more than half of
\* the non-null values when there is one, and null when no value is (a 1-1
\* or 2-2 split) or when no value is non-null.
C15_StrictMajorityOfExactValues ==
    ReturnedFrom("_majority_vote") =>
        LET valid == NonNull(frame[1].args.values)
            votes(v) == Cardinality({i \in DOMAIN valid : valid[i] = v})
            winners == {i \in DOMAIN valid : votes(valid[i]) * 2 > Len(valid)}
        IN  IF winners # {}
            THEN \E i \in winners :
                    /\ frame[1].ret[1] = valid[i]
                    /\ \A j \in DOMAIN valid : votes(valid[j]) <= votes(valid[i])
            ELSE frame[1].ret[1] = None

\* C15, witness: a 2-2 split returned null
C15_Witness ==
    /\ ReturnedFrom("_majority_vote")
    /\ frame[1].args.values =
          <<Some(Float(1, 1)), Some(Float(2, 1)), Some(Float(2, 1)), Some(Float(1, 1))>>
    /\ frame[1].ret = Some(None)

\* the score of an outcome in thousandths: extractor weight in hundredths
\* times source weight in tenths, times 1.1 when raw text is present
ScoreOf(entry) ==
    (CASE entry.name = "LLM" -> 100
       [] entry.name = "Vision" -> 90
       [] entry.name = "NER" -> 70
       [] OTHER -> 50)
    * (CASE entry.result.extraction_source = "attachment" -> 12
         [] entry.result.extraction_source = "both" -> 11
         [] OTHER -> 10)
    * (IF entry.result.opportunity.raw_ebitda_text \in {None, Some(<<>>)} THEN 10 ELSE 11)

\* C16: _confidence_weighted returns the EBITDA value of one outcome: the
\* first, in list order, of the outcomes with a non-null EBITDA whose score
\* (extractor weight x source weight x raw-text bonus) is the highest, and
\* null when no outcome has an EBITDA.  For 4.5 (NER, body), 6.0 (LLM, body),
\* 3.6 (Vision, attachment), all with raw text, the cascade returns 3.6 and
\* names confidence selection, of Vision with score 1.19.
C16_HighestScoreFirstWins ==
    /\ ReturnedFrom("_confidence_weighted") =>
          LET rs == frame[1].args.results
              valued == {i \in DOMAIN rs : rs[i].result.opportunity.ebitda_millions # None}
          IN  IF valued = {}
              THEN frame[1].ret[1].value = None
              ELSE \E i \in valued :
                      /\ \A j \in valued : ScoreOf(rs[j]) <= ScoreOf(rs[i])
                      /\ \A j \in valued : j < i => ScoreOf(rs[j]) < ScoreOf(rs[i])
                      /\ frame[1].ret[1].value = rs[i].result.opportunity.ebitda_millions
                      /\ frame[1].ret[1].reason.parser = rs[i].name
    /\ (ReturnedFrom("_combine_results") /\ frame[1].args.results = WeightedExample) =>
          /\ frame[1].ret[1].ebitda_millions = Some(Float(10800, 1))
          /\ frame[1].ret[1].raw_ebitda_text =
                Some(bracketed([method |-> "confidence_selection: ", parser |-> "Vision",
                                score |-> 119]))

\* C16, witness: the cascade has merged the example and returned 3.6
C16_Witness ==
    /\ ReturnedFrom("_combine_results")
    /\ frame[1].args.results = WeightedExample
    /\ frame[1].ret[1].ebitda_millions = Some(Float(10800, 1))

\* C17 as stated: for 4.5 (NER, body, no raw text), 4.5 (LLM, body, raw
\* text), 3.6 (Vision, attachment, raw text) the cascade returns 4.5 and the
\* label it records is majority_vote.
C17_AgreementLabelledMajorityVote ==
    (ReturnedFrom("_combine_results") /\ frame[1].args.results = AgreementExample) =>
        /\ frame[1].ret[1].ebitda_millions = Some(Float(13500, 1))
        /\ frame[1].ret[1].raw_ebitda_text = Some(bracketed(tie_break("majority_vote")))

\* C17 as amended: for the same outcomes the cascade returns 4.5 and the
\* label it records is that of fuzzy consensus, the first step of the
\* cascade, which groups the two values 4.5 into a cluster of 2 of 3; the
\* label is neither majority_vote, which would also answer 4.5 but is not
\* reached, nor confidence selection.
C17_AgreementLabelledFuzzyConsensus ==
    (ReturnedFrom("_combine_results") /\ frame[1].args.results = AgreementExample) =>
        /\ frame[1].ret[1].ebitda_millions = Some(Float(13500, 1))
        /\ frame[1].ret[1].raw_ebitda_text =
              Some(bracketed(tie_break("fuzzy_consensus (values within +-$1K)")))
        /\ majority_vote(EbitdaOf(AgreementExample)) = Some(Float(13500, 1))
        /\ confidence_weighted(AgreementExample).value = Some(Float(10800, 1))

\* C17, witness: the cascade has merged the example under strategy "all"
C17_Witness ==
    /\ ReturnedFrom("_combine_results")
    /\ frame[1].args.results = AgreementExample
    /\ frame[1].args.strategy = "all"
    /\ frame[1].ret # None

\* C18: _source_prioritized returns the first non-null EBITDA, in list order,
\* among the outcomes tagged "attachment"; when there is none, the first
\* non-null EBITDA among the outcomes tagged "body"; and null when there is
\* none either: an outcome with another tag is never selected.
C18_AttachmentThenBody ==
    ReturnedFrom("_source_prioritized") =>
        LET rs == frame[1].args.results
            tagged(tag) == {i \in DOMAIN rs :
                               /\ rs[i].result.extraction_source = tag
                               /\ rs[i].result.opportunity.ebitda_millions # None}
            first(tag) == CHOOSE i \in tagged(tag) : \A j \in tagged(tag) : i <= j
            value == frame[1].ret[1]
        IN  IF tagged("attachment") # {}
            THEN value = rs[first("attachment")].result.opportunity.ebitda_millions
            ELSE IF tagged("body") # {}
                 THEN value = rs[first("body")].result.opportunity.ebitda_millions
                 ELSE value = None

\* C18, witness: an outcome tagged "both", one tagged "body" and one tagged
\* "attachment", in this order and each with an EBITDA; the value returned
\* is that of the last, which differs from that of the second
C18_Witness ==
    /\ ReturnedFrom("_source_prioritized")
    /\ Len(frame[1].args.results) = 3
    /\ frame[1].args.results[1].result.extraction_source = "both"
    /\ frame[1].args.results[2].result.extraction_source = "body"
    /\ frame[1].args.results[3].result.extraction_source = "attachment"
    /\ \A i \in 1..3 : frame[1].args.results[i].result.opportunity.ebitda_millions # None
    /\ frame[1].ret[1] = frame[1].args.results[3].result.opportunity.ebitda_millions
    /\ frame[1].ret[1] # frame[1].args.results[2].result.opportunity.ebitda_millions

\* one outcome of rs has an EBITDA, it is tagged "attachment", and every other
\* outcome has none
OnlyAttachmentValue(rs, i) ==
    /\ rs[i].result.opportunity.ebitda_millions # None
    /\ rs[i].result.extraction_source = "attachment"
    /\ \A j \in DOMAIN rs \ {i} : rs[j].result.opportunity.ebitda_millions = None

\* C19: when one outcome, tagged "attachment", has an EBITDA and every other
\* outcome has none, the merged ebitda_millions is the value of that outcome,
\* whichever extractor produced it (OCR, of the lowest weight, or Vision)
\* and wherever it is in the list.
C19_LoneAttachmentValueSelected ==
    ReturnedFrom("_combine_results") =>
        \A i \in DOMAIN frame[1].args.results :
            OnlyAttachmentValue(frame[1].args.results, i) =>
                frame[1].ret[1].ebitda_millions =
                    frame[1].args.results[i].result.opportunity.ebitda_millions

\* C19, witness: the lone value is of OCR, last in the list after an outcome
\* of LLM without an EBITDA, and it is the merged value
C19_Witness ==
    /\ ReturnedFrom("_combine_results")
    /\ Len(frame[1].args.results) = 2
    /\ frame[1].args.results[1].name = "LLM"
    /\ frame[1].args.results[2].name = "OCR"
    /\ OnlyAttachmentValue(frame[1].args.results, 2)
    /\ frame[1].ret[1].ebitda_millions = Some(Float(2, 1))

\* text holds pat as a substring, letter case ignored
ContainsIgnoringCase(text, pat) ==
    \E k \in 0..(Len(text) - Len(pat)) :
        \A i \in 1..Len(pat) : Lower(text[k + i]) = Lower(pat[i])

ValidateEnded ==
    /\ pc \in {"done", "raised"}
    /\ frame[1].fn = "_validate_against_historical"

\* what C20 says of the value returned: the closest candidate, the first on
\* equal distance, when the first matching row has a value that parses (a
\* number, or a text float() accepts without "$" and ","), and null when
\* there is no table, no company name, no matching row or no candidate
ClosestHistoricalCandidate ==
    ReturnedFrom("_validate_against_historical") =>
        LET table == frame[1].self.historical_data
            name == frame[1].args.company_name
            valid == NonNull(frame[1].args.ebitda_values)
            matching == {r \in DOMAIN table[1] :
                            /\ table[1][r].company # None
                            /\ ContainsIgnoringCase(table[1][r].company[1], name[1])}
            cell == table[1][CHOOSE r \in matching : \A q \in matching : r <= q].ltm_ebitda
            distance(i) == Abs(valid[i][1][1] * cell.val[2] - cell.val[1] * valid[i][1][2])
            value == frame[1].ret[1]
        IN  IF table = None \/ name \in {None, Some(<<>>)}
            THEN value = None
            ELSE IF matching = {} \/ valid = <<>>
            THEN value = None
            ELSE cell.kind \in {"float", "money"} =>
                    \E i \in DOMAIN valid :
                        /\ \A j \in DOMAIN valid : distance(i) <= distance(j)
                        /\ \A j \in 1..(i - 1) : distance(i) < distance(j)
                        /\ value = valid[i]

\* C20: _validate_against_historical returns, and what it returns is the
\* non-null candidate closest to the historical value of the matching row
\* (the first candidate on equal distance), 7.0 for candidates [5.0, 7.0] and
\* a historical 6.2, or null when there is no historical table, no company
\* name, no matching row or no non-null candidate.
C20_ClosestHistoricalCandidate ==
    /\ ValidateEnded => pc = "done"
    /\ ClosestHistoricalCandidate
    /\ (ReturnedFrom("_validate_against_historical")
            /\ frame[1].args = HistoricalExample[1].args
            /\ frame[1].self = HistoricalExample[1].self)
          => frame[1].ret[1] = Some(Float(21000, 1))

CombineEnded == pc \in {"done", "raised"} /\ frame[1].fn = "_combine_results"

\* the company name _combine_results looks up: the first that is not empty
LookedUp(rs) ==
    LET named == {i \in DOMAIN rs : rs[i].result.opportunity.company_name \notin {None, Some(<<>>)}}
    IN  IF named = {}
        THEN None
        ELSE rs[CHOOSE i \in named : \A j \in named : i <= j].result.opportunity.company_name

\* the table of self has a row that holds name, and the EBITDA cell of the
\* first such row is "n.a." or a text float() rejects
MatchedMalformed(table, name) ==
    /\ table # None
    /\ name \notin {None, Some(<<>>)}
    /\ LET matching == {r \in DOMAIN table[1] :
                           /\ table[1][r].company # None
                           /\ ContainsIgnoringCase(table[1][r].company[1], name[1])}
       IN  /\ matching # {}
           /\ table[1][CHOOSE r \in matching : \A q \in matching : r <= q].ltm_ebitda.kind
                 \in {"n.a.", "text"}

\* the first non-null EBITDA of the outcome list, in list order
FirstEbitda(rs) ==
    LET valued == {i \in DOMAIN rs : rs[i].result.opportunity.ebitda_millions # None}
    IN  IF valued = {}
        THEN None
        ELSE rs[CHOOSE i \in valued : \A j \in valued : i <= j].result.opportunity.ebitda_millions

\* C21: when the historical value of the matched row is malformed ("n.a." or
\* a text that does not parse), _validate_against_historical returns null
\* and does not raise; _combine_results does not raise either and goes on
\* to first available: with strategy "historical" the merged EBITDA is the
\* first non-null EBITDA, labelled first_available when there is one, and
\* with strategy "all", where the lookup is reached only when no outcome has
\* an EBITDA, the merged EBITDA is null.
C21_MalformedHistoricalIsNoSignal ==
    /\ (ValidateEnded /\ MatchedMalformed(frame[1].self.historical_data,
                                          frame[1].args.company_name)) =>
          (pc = "done" /\ frame[1].ret = Some(None))
    /\ (CombineEnded /\ frame[1].args.strategy \in {"historical", "all"}
            /\ MatchedMalformed(frame[1].self.historical_data, LookedUp(frame[1].args.results))) =>
          /\ pc = "done"
          /\ (frame[1].args.strategy = "historical"
                 \/ FirstEbitda(frame[1].args.results) = None) =>
                /\ frame[1].ret[1].ebitda_millions = FirstEbitda(frame[1].args.results)
                /\ MethodOf(frame[1].ret[1]) =
                      IF FirstEbitda(frame[1].args.results) = None
                      THEN "unknown"
                      ELSE "first_available"

\* C21, witness: strategy "historical", the cell of the matched row is a text
\* that does not parse, and the merged EBITDA is the first available one
C21_Witness ==
    /\ ReturnedFrom("_combine_results")
    /\ frame[1].args.strategy = "historical"
    /\ frame[1].self.historical_data = Some(<<Row(Some(<<"a", "b">>), "text", 1)>>)
    /\ LookedUp(frame[1].args.results) = Some(<<"A", "b">>)
    /\ frame[1].ret[1].ebitda_millions = Some(Float(2, 1))
    /\ MethodOf(frame[1].ret[1]) = "first_available"

\* the options of all outcomes for the field, as <<outcome, option>>
\* positions, and their order: outcome-list order, then option order
OptionsOf(rs, options_field) ==
    {<<i, k>> : i \in DOMAIN rs, k \in 1..MaxOutcomes} \cap
        {pos \in (DOMAIN rs) \X (1..MaxOutcomes) :
            pos[2] \in DOMAIN rs[pos[1]].result.opportunity[options_field]}

SeenBefore(a, b) == a[1] < b[1] \/ (a[1] = b[1] /\ a[2] < b[2])

OptionAt(rs, options_field, pos) == rs[pos[1]].result.opportunity[options_field][pos[2]]

\* extractor weight in tenths x source weight in tenths x confidence in tenths
CombinedScore(rs, options_field, pos) ==
    (CASE rs[pos[1]].name = "LLM" -> 10
       [] rs[pos[1]].name = "Vision" -> 9
       [] rs[pos[1]].name = "NER" -> 7
       [] OTHER -> 5)
    * (CASE rs[pos[1]].result.extraction_source = "attachment" -> 12
         [] rs[pos[1]].result.extraction_source = "both" -> 11
         [] OTHER -> 10)
    * OptionAt(rs, options_field, pos).confidence

\* the first, in the order seen, of the options of the highest combined score
BestOption(rs, options_field) ==
    CHOOSE pos \in OptionsOf(rs, options_field) :
        \A other \in OptionsOf(rs, options_field) :
            /\ CombinedScore(rs, options_field, other) <= CombinedScore(rs, options_field, pos)
            /\ SeenBefore(other, pos) =>
                  CombinedScore(rs, options_field, other) < CombinedScore(rs, options_field, pos)

\* C22: when the outcomes offer options for the field, _select_best_field
\* returns the value of the option of the highest combined score, the first
\* seen of them when several share it.
C22_HighestScoredOptionWins ==
    (ReturnedFrom("_select_best_field")
        /\ OptionsOf(frame[1].args.results, frame[1].args.options_field) # {}) =>
        frame[1].ret[1] =
            OptionAt(frame[1].args.results, frame[1].args.options_field,
                     BestOption(frame[1].args.results, frame[1].args.options_field)).value

\* the first non-null scalar value of an outcome of LLM or Vision (when
\* preferred_only) or of any outcome, in list order, else null
FirstScalar(rs, fallback_field, preferred_only) ==
    LET has == {i \in DOMAIN rs :
                   /\ rs[i].result.opportunity[fallback_field] # None
                   /\ preferred_only => rs[i].name \in {"LLM", "Vision"}}
    IN  IF has = {}
        THEN None
        ELSE rs[CHOOSE i \in has : \A j \in has : i <= j].result.opportunity[fallback_field]

\* C23: _select_best_field returns a scalar field value exactly when every
\* outcome's options list for the field is empty: then it returns the first
\* non-null scalar value of an outcome named LLM or Vision, else the first
\* non-null scalar value of any outcome, else null; otherwise it returns the
\* value of the best option.
C23_FallbackOnlyWithoutOptions ==
    ReturnedFrom("_select_best_field") =>
        LET rs == frame[1].args.results
        IN  IF OptionsOf(rs, frame[1].args.options_field) = {}
            THEN frame[1].ret[1] =
                    IF FirstScalar(rs, frame[1].args.fallback_field, TRUE) # None
                    THEN FirstScalar(rs, frame[1].args.fallback_field, TRUE)
                    ELSE FirstScalar(rs, frame[1].args.fallback_field, FALSE)
            ELSE \E pos \in OptionsOf(rs, frame[1].args.options_field) :
                    frame[1].ret[1] = OptionAt(rs, frame[1].args.options_field, pos).value

\* some option has a positive confidence and no option has a null value
OptionsUsable(rs, options_field) ==
    /\ \E pos \in OptionsOf(rs, options_field) : OptionAt(rs, options_field, pos).confidence > 0
    /\ \A pos \in OptionsOf(rs, options_field) : OptionAt(rs, options_field, pos).value # None

\* C28: when some offered option has a positive confidence and no offered
\* option has a null value, _select_best_field returns the value of an
\* offered option, and never the scalar value of an outcome without options,
\* whatever the weight of its extractor.
C28_ScalarNeverBeatsOptions ==
    (ReturnedFrom("_select_best_field")
        /\ OptionsUsable(frame[1].args.results, frame[1].args.options_field)) =>
        LET rs == frame[1].args.results
        IN  /\ \E pos \in OptionsOf(rs, frame[1].args.options_field) :
                  frame[1].ret[1] = OptionAt(rs, frame[1].args.options_field, pos).value
            /\ \A i \in DOMAIN rs :
                  rs[i].result.opportunity[frame[1].args.options_field] = <<>> =>
                      (frame[1].ret[1] # rs[i].result.opportunity[frame[1].args.fallback_field]
                         \/ frame[1].ret[1] = None)

\* C28, witness: the LLM outcome, first in the list, has the scalar value
\* "s" and no options, the OCR outcome has an option, and the value of the
\* option is returned
C28_Witness ==
    /\ ReturnedFrom("_select_best_field")
    /\ Len(frame[1].args.results) = 2
    /\ frame[1].args.results[1] = FieldEntry("LLM", "body", <<>>, Some(<<"s">>))
    /\ frame[1].args.results[2].name = "OCR"
    /\ OptionsUsable(frame[1].args.results, frame[1].args.options_field)
    /\ frame[1].ret = Some(Some(<<"x">>))

\* C24: no extractor is invoked more than once, none that is not configured
\* is invoked, and the outcome list never holds two outcomes of one
\* extractor; when _combine_results starts, every configured extractor has
\* been invoked exactly once and has returned or raised, in parallel mode
\* every future has completed and been collected, and in sequential mode the
\* loop has passed the last extractor, whichever extractors raised.
C24_CombineAfterEveryExtractorOnce ==
    /\ \A n \in ParserNames : Len(calls[n]) <= (IF InParsers(n) THEN 1 ELSE 0)
    /\ \A i, j \in DOMAIN results : results[i].name = results[j].name => i = j
    /\ Handed =>
          /\ \A n \in ParserNames : InParsers(n) => Len(calls[n]) = 1
          /\ IF parallel /\ Len(parsers) > 1
             THEN \A n \in ParserNames :
                      futures[n] = (IF InParsers(n) THEN "yielded" ELSE "none")
             ELSE Len(parsers) > 0 => idx = Len(parsers) + 1

\* C24, witness: both modes reach _combine_results with more than one
\* extractor configured, the first of them having raised and a later one
\* having been invoked all the same
C24_Witness ==
    /\ pc = "combine"
    /\ Len(parsers) > 1
    /\ calls[parsers[1]] # <<>> /\ calls[parsers[1]][1].raises
    /\ calls[parsers[Len(parsers)]] # <<>> /\ ~calls[parsers[Len(parsers)]][1].raises
    /\ Len(results) < Len(parsers)

ParseEnded == pc \in {"done", "raised"} /\ frame[1].fn = "parse"

\* C25: BaseParser.parse always returns.  When extract_msg_file or
\* parse_data raised, the result has extraction_source "error", the
\* opportunity with every field null and an errors list holding the text of
\* the exception; when neither raised, errors is empty and the opportunity
\* is the one parse_data returned.
C25_ParseReturnsErrorResult ==
    ParseEnded =>
        /\ pc = "done"
        /\ LET msg_file == frame[1].args.msg_file
               behaviour == frame[1].args.behaviour
               result == frame[1].ret[1]
           IN  IF msg_file.raises \/ behaviour.raises
               THEN /\ result.extraction_source = "error"
                    /\ result.opportunity = InvestmentOpportunity
                    /\ \E i \in DOMAIN result.errors :
                          result.errors[i] = (IF msg_file.raises THEN msg_file.text
                                              ELSE behaviour.text)
               ELSE /\ result.errors = <<>>
                    /\ result.opportunity = behaviour.opportunity

\* C25, witness: the file was read, parse_data raised, and parse returned
\* the error result with the text of that exception
C25_Witness ==
    /\ ParseEnded
    /\ ~frame[1].args.msg_file.raises
    /\ frame[1].args.behaviour.raises
    /\ frame[1].ret # None
    /\ frame[1].ret[1].errors = <<frame[1].args.behaviour.text>>

\* C26: in every cluster _fuzzy_consensus has built, during the loop and
\* after it, each member is within the tolerance of the first member of its
\* cluster, and so any two members of one cluster are at most twice the
\* tolerance apart.
C26_ClusterAnchoredOnFirstMember ==
    (pc \in {"call", "done"} /\ frame[1].fn = "_fuzzy_consensus") =>
        \A c \in DOMAIN frame[1].locals.clusters :
            LET cluster == frame[1].locals.clusters[c]
            IN  /\ \A k \in DOMAIN cluster :
                      AbsDiffLeq(cluster[k][1], cluster[1][1], frame[1].args.tolerance)
                /\ \A k, m \in DOMAIN cluster :
                      AbsDiffLeq(cluster[k][1], cluster[m][1], 2 * frame[1].args.tolerance)

\* C26, witness: a finished call whose cluster has two members further
\* apart than the tolerance
C26_Witness ==
    /\ ReturnedFrom("_fuzzy_consensus")
    /\ \E c \in DOMAIN frame[1].locals.clusters :
          \E k, m \in DOMAIN frame[1].locals.clusters[c] :
              ~AbsDiffLeq(frame[1].locals.clusters[c][k][1], frame[1].locals.clusters[c][m][1],
                          frame[1].args.tolerance)

SomeEbitda(rs) == \E i \in DOMAIN rs : rs[i].result.opportunity.ebitda_millions # None

\* C27: with strategy "all" and at least one outcome with a non-null EBITDA,
\* _combine_results returns, the merged EBITDA is the non-null answer of
\* fuzzy consensus, majority vote or confidence-weighted selection, and
\* raw_ebitda_text names none of source prioritization, historical
\* validation and first available.
C27_FirstThreeStepsSettle ==
    (pc \in {"returned", "raised"} /\ strategy = "all" /\ SomeEbitda(results)) =>
        /\ pc = "returned"
        /\ \E k \in 1..3 :
              /\ StrategyAnswers(results)[k] # None
              /\ combined[1].ebitda_millions = StrategyAnswers(results)[k]
        /\ \A k \in 4..6 : MethodOf(combined[1]) # StrategyMethods[k]

\* C27, witness: two values too far apart for a consensus or a majority and
\* an outcome whose company name the historical lookup cannot take; the
\* confidence-weighted selection settles the EBITDA
C27_Witness ==
    /\ Returned
    /\ Len(results) = 3
    /\ SomeEbitda(results)
    /\ StrategyAnswers(results)[1] = None
    /\ StrategyAnswers(results)[2] = None
    /\ StrategyAnswers(results)[4] # None
    /\ \E i \in DOMAIN results :
          results[i].result.opportunity.company_name = Some(<<"a", "(">>)
    /\ MethodOf(combined[1]) = StrategyMethods[3]

\* the outcome list with every ebitda_options list emptied
WithoutEbitdaOptions(rs) ==
    [i \in DOMAIN rs |-> [rs[i] EXCEPT !.result.opportunity.ebitda_options = <<>>]]

\* C29: _combine_results gives an outcome list the merged EBITDA and the
\* strategy label it gives the same list without its ebitda_options: they
\* do not depend on the EBITDA options of the outcomes.
C29_EbitdaOptionsAreNotRead ==
    (CombineEnded /\ WithoutEbitdaOptions(frame[1].args.results) # frame[1].args.results) =>
        LET bare == combine_results(WithoutEbitdaOptions(frame[1].args.results),
                                    frame[1].args.strategy)
        IN  /\ pc = "done"
            /\ ~bare.raised
            /\ frame[1].ret[1].ebitda_millions = bare.value.ebitda_millions
            /\ frame[1].ret[1].raw_ebitda_text = bare.value.raw_ebitda_text

\* C29, witness: two outcomes too far apart for a consensus, the one of the
\* highest score with an EBITDA option of another value; the scalar value is
\* merged, by confidence-weighted selection
C29_Witness ==
    /\ ReturnedFrom("_combine_results")
    /\ Len(frame[1].args.results) = 2
    /\ frame[1].args.results[1] =
          OptionsEntry([name |-> "NER", extraction_source |-> "body", raw_ebitda_text |-> None],
                       Some(Float(-2, 1)), <<>>)
    /\ frame[1].args.results[2] =
          OptionsEntry([name |-> "LLM", extraction_source |-> "body",
                        raw_ebitda_text |-> Some(<<"e">>)],
                       Some(Float(2, 1)), <<[value |-> Some(Float(1, 1)), confidence |-> 10]>>)
    /\ frame[1].ret[1].ebitda_millions = Some(Float(2, 1))
    /\ MethodOf(frame[1].ret[1]) = "confidence_selection: "

NamedStrategyNames == {"fuzzy", "majority", "weighted", "prioritized", "historical"}

\* the answer of the one strategy that strat names
NamedAnswer(rs, strat) ==
    CASE strat = "fuzzy" -> StrategyAnswers(rs)[1]
      [] strat = "majority" -> StrategyAnswers(rs)[2]
      [] strat = "weighted" -> StrategyAnswers(rs)[3]
      [] strat = "prioritized" -> StrategyAnswers(rs)[4]
      [] strat = "historical" -> StrategyAnswers(rs)[5]

\* C30: called with one named strategy, _combine_results returns a record
\* whose EBITDA is the answer of that strategy when it has one, and else the
\* first non-null EBITDA in list order, labelled first_available; no other
\* strategy has a part in it.
C30_OnlyTheNamedStrategy ==
    (CombineEnded /\ frame[1].args.strategy \in NamedStrategyNames) =>
        /\ pc = "done"
        /\ LET rs == frame[1].args.results
               answer == NamedAnswer(rs, frame[1].args.strategy)
           IN  IF answer # None
               THEN frame[1].ret[1].ebitda_millions = answer
               ELSE /\ frame[1].ret[1].ebitda_millions = FirstEbitda(rs)
                    /\ FirstEbitda(rs) # None =>
                          MethodOf(frame[1].ret[1]) = "first_available"

====
